---- MODULE Spec2Model ----
(***************************************************************************)
(* The request orchestration of src/src/App.js: the React state of App,    *)
(* handleAction (validation, request, response handling, cleanup),         *)
(* handleClear, and the render guards that make the handlers reachable.    *)
(***************************************************************************)
EXTENDS Integers, Sequences, FiniteSets, TLC

(***************************************************************************)
(* JavaScript values.  Every value is a record tagged with its type, so    *)
(* that null, undefined, strings, numbers, booleans and objects can live   *)
(* in the same state variable.  A string value is a TLA+ string, except    *)
(* the text of the code area, which is a sequence of characters so that    *)
(* trim() is computed.                                                     *)
(***************************************************************************)
JNull == [t |-> "null"]
JUndef == [t |-> "undefined"]
JStr(s) == [t |-> "string", v |-> s]
JNum(n) == [t |-> "number", v |-> n]
JBool(b) == [t |-> "boolean", v |-> b]
JObj(f) == [t |-> "object", v |-> f]
\* A string given character by character, for the helpers that search it.
JText(cs) == [t |-> "text", v |-> cs]

\* ToBoolean, as used by !x, x && y, x || y and if (x).
Truthy(x) ==
    CASE x.t = "null" -> FALSE
      [] x.t = "undefined" -> FALSE
      [] x.t = "string" -> x.v # ""
      [] x.t = "text" -> x.v # <<>>
      [] x.t = "number" -> x.v # 0
      [] x.t = "boolean" -> x.v
      [] OTHER -> TRUE

\* x == null in JavaScript: true of null and of undefined.
IsNullish(x) == x.t \in {"null", "undefined"}

\* Property access o.k on a value that is not null or undefined: a missing
\* property, or a property of a primitive, reads as undefined.
Get(o, k) ==
    IF o.t = "object" /\ k \in DOMAIN o.v THEN o.v[k] ELSE JUndef

\* a || b
Or(a, b) == IF Truthy(a) THEN a ELSE b

\* The message of new Error(x) for the values that reach it here (strings).
ErrorMessage(x) == x.v

(***************************************************************************)
(* The inputs.                                                             *)
(***************************************************************************)
MaxCodeLen == 2

\* Characters the user can type: a whitespace character and another one.
Chars == {" ", "x"}

Codes == UNION {[1..n -> Chars] : n \in 0..MaxCodeLen}

\* Two of the ten <option> values of the language <select>.
Languages == {"javascript", "python"}

\* The four action buttons.
Modes == {"review", "fix", "optimize", "explain"}

RECURSIVE TrimStart(_)
TrimStart(s) ==
    IF s # <<>> /\ Head(s) = " " THEN TrimStart(Tail(s)) ELSE s

RECURSIVE TrimEnd(_)
TrimEnd(s) ==
    IF s # <<>> /\ s[Len(s)] = " " THEN TrimEnd(SubSeq(s, 1, Len(s) - 1)) ELSE s

\* String.prototype.trim
Trim(s) == TrimEnd(TrimStart(s))

\* A validation that forgets trim(): !code
CodeIsEmpty(c) == c = <<>>

\* !code.trim(): the empty string is the only falsy string.
CodeIsBlank(c) == Trim(c) = <<>>

(***************************************************************************)
(* What the service can answer.                                            *)
(***************************************************************************)
ValidationMessage == "Please enter some code"
HttpFallback == "Failed to process code"
ServiceFallback == "Processing failed"

\* err.message of the TypeError raised by reading a property of null.
NullReadMessage == "Cannot read properties of null"
\* err.message of the SyntaxError raised by response.json() on a body that
\* is not JSON (an empty body included).
ParseMessage == "Unexpected end of JSON input"
\* err.message of the TypeError with which fetch rejects.
TransportMessage == "Failed to fetch"

\* The data field of an envelope: absent, null, or an object with some of
\* the fields the views read.
ReviewData == JObj([summary |-> JStr("ok"), rating |-> JNum(8)])

Payloads ==
    { JUndef, JNull,
      JObj([note |-> JStr("n")]),
      ReviewData,
      JObj([summary |-> JStr("ok")]),
      JObj([fixedCode |-> JStr("f")]),
      JObj([optimizedCode |-> JStr("o")]),
      JObj([explanation |-> JStr("e")]) }

\* The mode field of an envelope: absent, or any of the modes.
ModeFields == {JUndef} \cup {JStr(m) : m \in Modes}

Envelope(s, d, m, e) == JObj([success |-> s, data |-> d, mode |-> m, error |-> e])

\* A parsed object body; each of its four fields is present or absent (an
\* absent field reads as undefined).  success: true comes with every data
\* and mode; an error field comes with success true, false or absent, and
\* with a bare or a well-formed review envelope around it.
Envelopes ==
    { Envelope(JBool(TRUE), d, m, JUndef) : d \in Payloads, m \in ModeFields }
    \cup
    { Envelope(s, d, JStr("review"), e) :
        s \in {JBool(TRUE)}, d \in {JUndef, ReviewData}, e \in {JStr(""), JStr("boom")} }
    \cup
    { Envelope(s, JUndef, JUndef, e) :
        s \in {JUndef, JBool(FALSE), JBool(TRUE)}, e \in {JUndef, JStr(""), JStr("boom")} }

\* A parsed body: JSON null or an object.
Bodies == {JNull} \cup Envelopes

(***************************************************************************)
(* State.                                                                  *)
(***************************************************************************)
VARIABLES
    code,         \* useState('')           the text of the code area
    language,     \* useState('javascript')
    loading,      \* useState(false)
    loadingMode,  \* useState(null)
    result,       \* useState(null)
    resultMode,   \* useState(null)
    error,        \* useState(null)
    pending,      \* the handleAction calls suspended at an await, oldest first
    last,         \* the latest step of handleAction or handleClear, and its input
    overlapped,   \* a call was accepted while another was suspended, and since
                  \* then the calls have not all returned
    call          \* the latest call of a render helper: its name, argument, value

vars == <<code, language, loading, loadingMode, result, resultMode, error,
          pending, last, overlapped, call>>

\* What the handlers of the form leave alone.
aside == <<overlapped, call>>

session == <<loading, loadingMode, result, resultMode, error>>

NoBody == JUndef

NoCall == [fn |-> "none", arg |-> JUndef, ret |-> JUndef]

Event(op, mode, ok, body) == [op |-> op, mode |-> mode, ok |-> ok, body |-> body]

Init ==
    /\ code = <<>>
    /\ language = "javascript"
    /\ loading = FALSE
    /\ loadingMode = JNull
    /\ result = JNull
    /\ resultMode = JNull
    /\ error = JNull
    /\ pending = <<>>
    /\ last = Event("init", "none", FALSE, NoBody)
    /\ overlapped = FALSE
    /\ call = NoCall

(***************************************************************************)
(* The edits of the form.                                                  *)
(***************************************************************************)
\* The values the code area can take after one edit of the text c: a
\* character typed or deleted at either end.  Longer edits (a paste, a cut)
\* are sequences of these; no handler reads the text before the edit.
Edits(c) ==
    { Append(c, ch) : ch \in Chars } \cup { <<ch>> \o c : ch \in Chars }
    \cup (IF c = <<>> THEN {} ELSE {Tail(c), SubSeq(c, 1, Len(c) - 1)})

\* onChange of the code <textarea>: setCode(e.target.value)
SetCode(c) ==
    /\ c \in Codes
    /\ code' = c
    /\ UNCHANGED <<language, session, pending, last>>

\* onChange of the language <select>: setLanguage(e.target.value)
SetLanguage(l) ==
    /\ l # language
    /\ language' = l
    /\ UNCHANGED <<code, session, pending, last>>

(***************************************************************************)
(* handleAction(mode), up to its first await.                              *)
(***************************************************************************)
\* if (!code.trim()) { setError('Please enter some code'); return; }
Reject(mode) ==
    /\ error' = JStr(ValidationMessage)
    /\ last' = Event("reject", mode, FALSE, NoBody)
    /\ UNCHANGED <<code, language, loading, loadingMode, result, resultMode, pending>>

\* JSON.stringify({ code, language, mode })
RequestBody(mode) == [code |-> code, language |-> language, mode |-> mode]

\* A call suspended at await fetch(...): ok is read once fetch has resolved.
Suspended(body) == [body |-> body, pc |-> "fetch", ok |-> FALSE]

\* An accept that forgets setError(null).
AcceptKeepsError(mode) ==
    /\ loading' = TRUE
    /\ loadingMode' = JStr(mode)
    /\ result' = JNull
    /\ resultMode' = JNull
    /\ pending' = Append(pending, Suspended(RequestBody(mode)))
    /\ last' = Event("accept", mode, FALSE, NoBody)
    /\ UNCHANGED <<code, language, error>>

\* An accept that forgets setResult(null) and setResultMode(null).
AcceptKeepsResult(mode) ==
    /\ loading' = TRUE
    /\ loadingMode' = JStr(mode)
    /\ error' = JNull
    /\ pending' = Append(pending, Suspended(RequestBody(mode)))
    /\ last' = Event("accept", mode, FALSE, NoBody)
    /\ UNCHANGED <<code, language, result, resultMode>>

\* The five setters before the try block, then the fetch call.
Accept(mode) ==
    /\ loading' = TRUE
    /\ loadingMode' = JStr(mode)
    /\ error' = JNull
    /\ result' = JNull
    /\ resultMode' = JNull
    /\ pending' = Append(pending, Suspended(RequestBody(mode)))
    /\ last' = Event("accept", mode, FALSE, NoBody)
    /\ UNCHANGED <<code, language>>

HandleAction(mode) ==
    IF CodeIsBlank(code) THEN Reject(mode) ELSE Accept(mode)

\* Buttons without disabled={loading}.
ClickWhileLoading(mode) == HandleAction(mode)

\* onClick of an action button; the four buttons carry disabled={loading}.
Click(mode) ==
    /\ ~loading
    /\ HandleAction(mode)

(***************************************************************************)
(* handleAction after an await.                                            *)
(***************************************************************************)
Remove(s, i) == SubSeq(s, 1, i - 1) \o SubSeq(s, i + 1, Len(s))

Threw(message) ==
    [threw |-> TRUE, message |-> message, result |-> JUndef, resultMode |-> JUndef]

Returned(r, m) ==
    [threw |-> FALSE, message |-> "", result |-> r, resultMode |-> m]

\* A try block that forgets the if (!response.ok) check.
RespondIgnoresStatus(ok, data) ==
    IF IsNullish(data) THEN Threw(NullReadMessage)
    ELSE IF Truthy(Get(data, "success"))
         THEN Returned(Get(data, "data"), Get(data, "mode"))
         ELSE Threw(ErrorMessage(Or(Get(data, "error"), JStr(ServiceFallback))))

\* A try block that stores the whole body: setResult(data)
RespondStoresBody(ok, data) ==
    IF IsNullish(data) THEN Threw(NullReadMessage)
    ELSE IF ~ok THEN Threw(ErrorMessage(Or(Get(data, "error"), JStr(HttpFallback))))
    ELSE IF Truthy(Get(data, "success"))
         THEN Returned(data, Get(data, "mode"))
         ELSE Threw(ErrorMessage(Or(Get(data, "error"), JStr(ServiceFallback))))

\* A try block whose fallbacks use ?? instead of ||: an empty message stays.
RespondNullishFallback(ok, data) ==
    IF IsNullish(data) THEN Threw(NullReadMessage)
    ELSE IF ~ok
         THEN Threw(ErrorMessage(IF IsNullish(Get(data, "error"))
                                 THEN JStr(HttpFallback) ELSE Get(data, "error")))
    ELSE IF Truthy(Get(data, "success"))
         THEN Returned(Get(data, "data"), Get(data, "mode"))
         ELSE Threw(ErrorMessage(IF IsNullish(Get(data, "error"))
                                 THEN JStr(ServiceFallback) ELSE Get(data, "error")))

\* Lines 45-54 on the parsed body: what the try block does with it.  Reading
\* a property of null raises a TypeError.
Respond(ok, data) ==
    IF IsNullish(data) THEN Threw(NullReadMessage)
    ELSE IF ~ok THEN Threw(ErrorMessage(Or(Get(data, "error"), JStr(HttpFallback))))
    ELSE IF Truthy(Get(data, "success"))
         THEN Returned(Get(data, "data"), Get(data, "mode"))
         ELSE Threw(ErrorMessage(Or(Get(data, "error"), JStr(ServiceFallback))))

\* A cleanup that forgets setLoadingMode(null).
FinallyKeepsMode ==
    /\ loading' = FALSE
    /\ UNCHANGED loadingMode

\* finally { setLoading(false); setLoadingMode(null); }
Finally ==
    /\ loading' = FALSE
    /\ loadingMode' = JNull

\* The cleanup written after the try block's body instead of in a finally
\* block: a throw skips it.
SettleWithoutFinally(i, out) ==
    /\ IF out.threw
       THEN /\ error' = JStr(out.message)
            /\ UNCHANGED <<result, resultMode, loading, loadingMode>>
       ELSE /\ result' = out.result
            /\ resultMode' = out.resultMode
            /\ loading' = FALSE
            /\ loadingMode' = JNull
            /\ UNCHANGED error
    /\ pending' = Remove(pending, i)
    /\ UNCHANGED <<code, language>>

\* A completion that resets the field it does not write.
SettleOverwritesBoth(i, out) ==
    /\ IF out.threw
       THEN /\ error' = JStr(out.message)
            /\ result' = JNull
            /\ resultMode' = JNull
       ELSE /\ result' = out.result
            /\ resultMode' = out.resultMode
            /\ error' = JNull
    /\ Finally
    /\ pending' = Remove(pending, i)
    /\ UNCHANGED <<code, language>>

\* The rest of the try block, the catch block and the finally block, for the
\* call pending[i]: setResult and setResultMode, or setError(err.message).
Settle(i, out) ==
    /\ IF out.threw
       THEN /\ error' = JStr(out.message)
            /\ UNCHANGED <<result, resultMode>>
       ELSE /\ result' = out.result
            /\ resultMode' = out.resultMode
            /\ UNCHANGED error
    /\ Finally
    /\ pending' = Remove(pending, i)
    /\ UNCHANGED <<code, language>>

\* await fetch(...) resolves with a response: response.ok is its status class.
FetchResolve(i, ok) ==
    /\ i \in 1..Len(pending)
    /\ pending[i].pc = "fetch"
    /\ pending' = [pending EXCEPT ![i] = [@ EXCEPT !.pc = "json", !.ok = ok]]
    /\ last' = Event("fetched", pending[i].body.mode, ok, NoBody)
    /\ UNCHANGED <<code, language, session>>

\* await fetch(...) rejects: the transport failed.
FetchReject(i) ==
    /\ i \in 1..Len(pending)
    /\ pending[i].pc = "fetch"
    /\ Settle(i, Threw(TransportMessage))
    /\ last' = Event("fetchFailed", pending[i].body.mode, FALSE, NoBody)

\* await response.json() rejects: the body is not JSON.
JsonReject(i) ==
    /\ i \in 1..Len(pending)
    /\ pending[i].pc = "json"
    /\ Settle(i, Threw(ParseMessage))
    /\ last' = Event("parseFailed", pending[i].body.mode, pending[i].ok, NoBody)

\* await response.json() resolves with the parsed body.
JsonResolve(i, data) ==
    /\ i \in 1..Len(pending)
    /\ pending[i].pc = "json"
    /\ Settle(i, Respond(pending[i].ok, data))
    /\ last' = Event("handled", pending[i].body.mode, pending[i].ok, data)

(***************************************************************************)
(* handleClear.                                                            *)
(***************************************************************************)
\* The Clear button is rendered inside the result view of each mode.
ClearVisible ==
    /\ Truthy(result)
    /\ \/ resultMode = JStr("review")
       \/ resultMode = JStr("fix") /\ Truthy(Get(result, "fixedCode"))
       \/ resultMode = JStr("optimize") /\ Truthy(Get(result, "optimizedCode"))
       \/ resultMode = JStr("explain") /\ Truthy(Get(result, "explanation"))

\* A clear that resets the whole form, the language included.
HandleClearResetsLanguage ==
    /\ code' = <<>>
    /\ language' = "javascript"
    /\ result' = JNull
    /\ resultMode' = JNull
    /\ error' = JNull
    /\ UNCHANGED <<loading, loadingMode, pending>>

HandleClear ==
    /\ code' = <<>>
    /\ result' = JNull
    /\ resultMode' = JNull
    /\ error' = JNull
    /\ UNCHANGED <<language, loading, loadingMode, pending>>

Clear ==
    /\ ClearVisible
    /\ HandleClear
    /\ last' = Event("clear", "none", FALSE, NoBody)

(***************************************************************************)
(* The render helpers: getComplexityColor, getComplexityWidth,             *)
(* getSeverityColor, getTypeColor.  Their string arguments are sequences   *)
(* of characters.                                                          *)
(***************************************************************************)
\* The character U+00B2, superscript two.
Squared == "sup2"

LowerLetters ==
    <<"a", "b", "c", "d", "e", "f", "g", "h", "i", "j", "k", "l", "m",
      "n", "o", "p", "q", "r", "s", "t", "u", "v", "w", "x", "y", "z">>

UpperLetters ==
    <<"A", "B", "C", "D", "E", "F", "G", "H", "I", "J", "K", "L", "M",
      "N", "O", "P", "Q", "R", "S", "T", "U", "V", "W", "X", "Y", "Z">>

LowerOf(ch) ==
    IF \E i \in DOMAIN UpperLetters : UpperLetters[i] = ch
    THEN LowerLetters[CHOOSE i \in DOMAIN UpperLetters : UpperLetters[i] = ch]
    ELSE ch

UpperOf(ch) ==
    IF \E i \in DOMAIN LowerLetters : LowerLetters[i] = ch
    THEN UpperLetters[CHOOSE i \in DOMAIN LowerLetters : LowerLetters[i] = ch]
    ELSE ch

\* String.prototype.toLowerCase
ToLowerCase(s) == [i \in 1..Len(s) |-> LowerOf(s[i])]

\* String.prototype.includes
Includes(s, sub) ==
    \E i \in 0..(Len(s) - Len(sub)) : SubSeq(s, i + 1, i + Len(sub)) = sub

\* The substrings the complexity helpers look for.
O1 == <<"o", "(", "1", ")">>
OLOGN == <<"o", "(", "l", "o", "g", " ", "n", ")">>
ON == <<"o", "(", "n", ")">>
ONLOGN == <<"o", "(", "n", " ", "l", "o", "g", " ", "n", ")">>
ONSQ == <<"o", "(", "n", Squared, ")">>
ONP2 == <<"o", "(", "n", "^", "2", ")">>
O2N == <<"o", "(", "2", "^", "n", ")">>
ONF == <<"o", "(", "n", "!", ")">>

\* What a helper call evaluates to when it throws a TypeError.
Thrown == [t |-> "throw"]

\* x.toLowerCase(): a TypeError on null, undefined and on a value that has
\* no such method.
LowerCased(x) == IF x.t = "text" THEN JText(ToLowerCase(x.v)) ELSE Thrown

\* x?.toLowerCase(): undefined on null and undefined.
OptionalLowerCased(x) == IF IsNullish(x) THEN JUndef ELSE LowerCased(x)

Gray == "#666"

getComplexityColor(complexity) ==
    IF ~Truthy(complexity) THEN JStr(Gray)
    ELSE LET comp == LowerCased(complexity) IN
         IF comp = Thrown THEN Thrown
         ELSE IF Includes(comp.v, O1) THEN JStr("#4caf50")
         ELSE IF Includes(comp.v, OLOGN) \/ Includes(comp.v, ON) THEN JStr("#8bc34a")
         ELSE IF Includes(comp.v, ONLOGN) THEN JStr("#ffc107")
         ELSE IF Includes(comp.v, ONSQ) \/ Includes(comp.v, ONP2) THEN JStr("#ff9800")
         ELSE IF Includes(comp.v, O2N) \/ Includes(comp.v, ONF) THEN JStr("#f44336")
         ELSE JStr(Gray)

\* A width test for O(n) that looks for 'o(n' only.
getComplexityWidthLooseN(complexity) ==
    IF ~Truthy(complexity) THEN JText(<<"5", "0", "%">>)
    ELSE LET comp == LowerCased(complexity) IN
         IF comp = Thrown THEN Thrown
         ELSE IF Includes(comp.v, O1) THEN JText(<<"1", "0", "%">>)
         ELSE IF Includes(comp.v, OLOGN) THEN JText(<<"2", "0", "%">>)
         ELSE IF Includes(comp.v, <<"o", "(", "n">>) THEN JText(<<"3", "0", "%">>)
         ELSE IF Includes(comp.v, ONLOGN) THEN JText(<<"5", "0", "%">>)
         ELSE IF Includes(comp.v, ONSQ) \/ Includes(comp.v, ONP2) THEN JText(<<"7", "0", "%">>)
         ELSE IF Includes(comp.v, O2N) \/ Includes(comp.v, ONF) THEN JText(<<"9", "0", "%">>)
         ELSE JText(<<"5", "0", "%">>)

getComplexityWidth(complexity) ==
    IF ~Truthy(complexity) THEN JText(<<"5", "0", "%">>)
    ELSE LET comp == LowerCased(complexity) IN
         IF comp = Thrown THEN Thrown
         ELSE IF Includes(comp.v, O1) THEN JText(<<"1", "0", "%">>)
         ELSE IF Includes(comp.v, OLOGN) THEN JText(<<"2", "0", "%">>)
         ELSE IF Includes(comp.v, ON) THEN JText(<<"3", "0", "%">>)
         ELSE IF Includes(comp.v, ONLOGN) THEN JText(<<"5", "0", "%">>)
         ELSE IF Includes(comp.v, ONSQ) \/ Includes(comp.v, ONP2) THEN JText(<<"7", "0", "%">>)
         ELSE IF Includes(comp.v, O2N) \/ Includes(comp.v, ONF) THEN JText(<<"9", "0", "%">>)
         ELSE JText(<<"5", "0", "%">>)

\* The case labels of the two switch statements, and a label in neither.
Critical == <<"c", "r", "i", "t", "i", "c", "a", "l">>
High == <<"h", "i", "g", "h">>
Medium == <<"m", "e", "d", "i", "u", "m">>
Low == <<"l", "o", "w">>
Bug == <<"b", "u", "g">>
Security == <<"s", "e", "c", "u", "r", "i", "t", "y">>
Performance == <<"p", "e", "r", "f", "o", "r", "m", "a", "n", "c", "e">>
BestPractice == <<"b", "e", "s", "t", "_", "p", "r", "a", "c", "t", "i", "c", "e">>
Other == <<"o", "t", "h", "e", "r">>

\* getSeverityColor written with severity.toLowerCase(): no optional chaining.
getSeverityColorNoOptional(severity) ==
    LET key == LowerCased(severity) IN
    IF key = Thrown THEN Thrown
    ELSE IF key = JText(Critical) THEN JStr("#f44336")
    ELSE IF key = JText(High) THEN JStr("#ff5722")
    ELSE IF key = JText(Medium) THEN JStr("#ff9800")
    ELSE IF key = JText(Low) THEN JStr("#4caf50")
    ELSE JStr(Gray)

getSeverityColor(severity) ==
    LET key == OptionalLowerCased(severity) IN
    IF key = Thrown THEN Thrown
    ELSE IF key = JText(Critical) THEN JStr("#f44336")
    ELSE IF key = JText(High) THEN JStr("#ff5722")
    ELSE IF key = JText(Medium) THEN JStr("#ff9800")
    ELSE IF key = JText(Low) THEN JStr("#4caf50")
    ELSE JStr(Gray)

getTypeColor(type) ==
    LET key == OptionalLowerCased(type) IN
    IF key = Thrown THEN Thrown
    ELSE IF key = JText(Bug) THEN JStr("#f44336")
    ELSE IF key = JText(Security) THEN JStr("#e91e63")
    ELSE IF key = JText(Performance) THEN JStr("#ff9800")
    ELSE IF key = JText(BestPractice) THEN JStr("#2196f3")
    ELSE JStr(Gray)

\* A word in lower case, in upper case, and with each one of its characters
\* in upper case.
CaseVariants(w) ==
    {w, [i \in DOMAIN w |-> UpperOf(w[i])]}
    \cup {[w EXCEPT ![i] = UpperOf(w[i])] : i \in DOMAIN w}

\* Absent values and the empty string.
Blank == {JUndef, JNull, JText(<<>>)}

\* result.timeComplexity, result.spaceComplexity: absent, empty, the notation
\* of each class in several letter cases, and a notation no test matches.
ComplexityArgs ==
    Blank
    \cup {JText(v) : v \in UNION {CaseVariants(w) :
                        w \in {O1, OLOGN, ON, ONLOGN, ONSQ, ONP2, O2N, ONF}}}
    \cup {JText(<<"O", "(", "n", "^", "3", ")">>)}

\* issue.severity
SeverityArgs ==
    Blank \cup {JText(v) : v \in UNION {CaseVariants(w) :
                              w \in {Critical, High, Medium, Low, Other}}}

\* issue.type
TypeArgs ==
    Blank \cup {JText(v) : v \in UNION {CaseVariants(w) :
                              w \in {Bug, Security, Performance, BestPractice, Other}}}

\* The two complexity rows of the review view.
RenderComplexity(time, space) ==
    /\ call' = [fn |-> "complexity",
                arg |-> [time |-> time, space |-> space],
                ret |-> [timeWidth |-> getComplexityWidth(time),
                         timeColor |-> getComplexityColor(time),
                         spaceWidth |-> getComplexityWidth(space),
                         spaceColor |-> getComplexityColor(space)]]
    /\ UNCHANGED <<code, language, session, pending, last, overlapped>>

\* The two badges of an issue of the review view.
RenderIssue(type, severity) ==
    /\ call' = [fn |-> "issue",
                arg |-> [type |-> type, severity |-> severity],
                ret |-> [typeColor |-> getTypeColor(type),
                         severityColor |-> getSeverityColor(severity)]]
    /\ UNCHANGED <<code, language, session, pending, last, overlapped>>

\* formatExplanation works on the characters of its argument. The newline and
\* the backtick are named; a tag the function inserts is one element, since
\* it holds no character a later step looks for.
Newline == "LF"
Backtick == "backtick"
Star == "*"
StrongOpen == "<strong>"
StrongClose == "</strong>"
EmOpen == "<em>"
EmClose == "</em>"
CodeOpen == "<code class=\"inline-code\">"
CodeClose == "</code>"
ParaOpen == "<p>"
ParaClose == "</p>"
Break == "<br>"

MaxTextLen == 5

\* Characters of result.explanation: two letters, the two whitespace
\* characters and the two markdown markers.
TextChars == {"a", "b", " ", Newline, Star, Backtick}

Texts == UNION {[1..n -> TextChars] : n \in 0..MaxTextLen}

\* result.explanation
ExplanationArgs == {JUndef, JNull} \cup {JText(cs) : cs \in Texts}

Least(S) == CHOOSE k \in S : \A m \in S : k <= m

\* /\*\*(.*?)\*\*/ tried at position i: the position of the closing pair,
\* 0 when there is no match at i.
BoldEnd(s, i) ==
    IF i + 1 <= Len(s) /\ s[i] = Star /\ s[i + 1] = Star
    THEN LET ks == {k \in (i + 2)..(Len(s) - 1) :
                       /\ s[k] = Star
                       /\ s[k + 1] = Star
                       /\ \A j \in (i + 2)..(k - 1) : s[j] # Newline}
         IN IF ks = {} THEN 0 ELSE Least(ks)
    ELSE 0

RECURSIVE ReplaceBold(_, _)
ReplaceBold(s, i) ==
    IF i > Len(s) THEN <<>>
    ELSE LET k == BoldEnd(s, i) IN
         IF k # 0
         THEN <<StrongOpen>> \o SubSeq(s, i + 2, k - 1) \o <<StrongClose>>
                  \o ReplaceBold(s, k + 2)
         ELSE <<s[i]>> \o ReplaceBold(s, i + 1)

\* (?<!\*)\*(?!\*): a star at position i with no star beside it.
LoneStar(s, i) ==
    /\ s[i] = Star
    /\ i = 1 \/ s[i - 1] # Star
    /\ i = Len(s) \/ s[i + 1] # Star

\* /(?<!\*)\*(?!\*)(.*?)(?<!\*)\*(?!\*)/ tried at position i: the position of
\* the closing star, 0 when there is no match at i.
ItalicEnd(s, i) ==
    IF LoneStar(s, i)
    THEN LET ks == {k \in (i + 1)..Len(s) :
                       /\ LoneStar(s, k)
                       /\ \A j \in (i + 1)..(k - 1) : s[j] # Newline}
         IN IF ks = {} THEN 0 ELSE Least(ks)
    ELSE 0

RECURSIVE ReplaceItalic(_, _)
ReplaceItalic(s, i) ==
    IF i > Len(s) THEN <<>>
    ELSE LET k == ItalicEnd(s, i) IN
         IF k # 0
         THEN <<EmOpen>> \o SubSeq(s, i + 1, k - 1) \o <<EmClose>>
                  \o ReplaceItalic(s, k + 1)
         ELSE <<s[i]>> \o ReplaceItalic(s, i + 1)

\* /`([^`]+)`/ tried at position i: the position of the closing backtick,
\* 0 when there is no match at i.
CodeEnd(s, i) ==
    IF s[i] = Backtick
    THEN LET ks == {k \in (i + 1)..Len(s) : s[k] = Backtick}
         IN IF ks = {} \/ Least(ks) = i + 1 THEN 0 ELSE Least(ks)
    ELSE 0

RECURSIVE ReplaceCode(_, _)
ReplaceCode(s, i) ==
    IF i > Len(s) THEN <<>>
    ELSE LET k == CodeEnd(s, i) IN
         IF k # 0
         THEN <<CodeOpen>> \o SubSeq(s, i + 1, k - 1) \o <<CodeClose>>
                  \o ReplaceCode(s, k + 1)
         ELSE <<s[i]>> \o ReplaceCode(s, i + 1)

\* .split(/\n\n+/) from position i on, cur being the piece read so far.
RECURSIVE Split(_, _, _)
Split(s, i, cur) ==
    IF i > Len(s) THEN <<cur>>
    ELSE IF s[i] = Newline /\ i + 1 <= Len(s) /\ s[i + 1] = Newline
    THEN LET e == CHOOSE e \in (i + 1)..Len(s) :
                      /\ \A j \in i..e : s[j] = Newline
                      /\ e = Len(s) \/ s[e + 1] # Newline
         IN <<cur>> \o Split(s, e + 1, <<>>)
    ELSE Split(s, i + 1, Append(cur, s[i]))

Whitespace == {" ", Newline}

RECURSIVE TrimParaStart(_)
TrimParaStart(s) ==
    IF s # <<>> /\ Head(s) \in Whitespace THEN TrimParaStart(Tail(s)) ELSE s

RECURSIVE TrimParaEnd(_)
TrimParaEnd(s) ==
    IF s # <<>> /\ s[Len(s)] \in Whitespace
    THEN TrimParaEnd(SubSeq(s, 1, Len(s) - 1))
    ELSE s

\* para.trim()
TrimPara(s) == TrimParaEnd(TrimParaStart(s))

RECURSIVE Flatten(_)
Flatten(ss) == IF ss = <<>> THEN <<>> ELSE Head(ss) \o Flatten(Tail(ss))

\* `<p>${para.replace(/\n/g, '<br>')}</p>`
Wrap(para) ==
    <<ParaOpen>> \o [i \in 1..Len(para) |-> IF para[i] = Newline THEN Break ELSE para[i]]
        \o <<ParaClose>>

\* formatExplanation without .filter(para => para.length > 0).
formatExplanationKeepsEmpty(text) ==
    IF ~Truthy(text) THEN JText(<<>>)
    ELSE IF text.t # "text" THEN Thrown
    ELSE LET marked == ReplaceCode(ReplaceItalic(ReplaceBold(text.v, 1), 1), 1)
             pieces == Split(marked, 1, <<>>)
             trimmed == [i \in 1..Len(pieces) |-> TrimPara(pieces[i])]
             wrapped == [i \in 1..Len(trimmed) |-> Wrap(trimmed[i])]
         IN JText(Flatten(wrapped))

formatExplanation(text) ==
    IF ~Truthy(text) THEN JText(<<>>)
    ELSE IF text.t # "text" THEN Thrown
    ELSE LET marked == ReplaceCode(ReplaceItalic(ReplaceBold(text.v, 1), 1), 1)
             pieces == Split(marked, 1, <<>>)
             trimmed == [i \in 1..Len(pieces) |-> TrimPara(pieces[i])]
             kept == SelectSeq(trimmed, LAMBDA para : Len(para) > 0)
             wrapped == [i \in 1..Len(kept) |-> Wrap(kept[i])]
         IN JText(Flatten(wrapped))

\* The explanation view.
RenderExplanation(text) ==
    /\ call' = [fn |-> "explanation", arg |-> text, ret |-> formatExplanation(text)]
    /\ UNCHANGED <<code, language, session, pending, last, overlapped>>

\* The helpers are pure and a call replaces the record of the call before it,
\* so every call is taken from the state in which none has been made.
HelperNext ==
    /\ call = NoCall
    /\ \/ \E time \in ComplexityArgs, space \in ComplexityArgs :
              RenderComplexity(time, space)
       \/ \E type \in TypeArgs, severity \in SeverityArgs : RenderIssue(type, severity)
       \/ \E text \in ExplanationArgs : RenderExplanation(text)

\* The helpers applied to each of their arguments.
HelperSpec == Init /\ [][HelperNext]_vars

(***************************************************************************)
(* The program: the handlers the rendered page makes reachable.            *)
(***************************************************************************)
FetchResolved == \E i \in 1..Len(pending), ok \in BOOLEAN : FetchResolve(i, ok)

FetchRejected == \E i \in 1..Len(pending) : FetchReject(i)

JsonRejected == \E i \in 1..Len(pending) : JsonReject(i)

JsonResolved == \E i \in 1..Len(pending), data \in Bodies : JsonResolve(i, data)

\* A suspended call resumes.
Resolution == FetchResolved \/ FetchRejected \/ JsonRejected \/ JsonResolved

Next ==
    \/ (\E c \in Edits(code) : SetCode(c)) /\ UNCHANGED aside
    \/ (\E l \in Languages : SetLanguage(l)) /\ UNCHANGED aside
    \/ (\E mode \in Modes : Click(mode)) /\ UNCHANGED aside
    \/ Clear /\ UNCHANGED aside
    \/ FetchResolved /\ UNCHANGED aside
    \/ FetchRejected /\ UNCHANGED aside
    \/ JsonRejected /\ UNCHANGED aside
    \/ JsonResolved /\ UNCHANGED aside

Spec == Init /\ [][Next]_vars

\* The outbound call eventually resolves or fails, and so does the reading of
\* its body.
FairSpec == Spec /\ WF_vars(Resolution /\ UNCHANGED aside)

Completed == {"handled", "parseFailed", "fetchFailed"}

(***************************************************************************)
(* handleAction called while an earlier call is still suspended: the       *)
(* handler itself does not test loading.                                   *)
(***************************************************************************)
MaxPending == 2

\* The modes of the overlapping calls.
DirectModes == Modes

\* The answers to the overlapping calls: a success for two of the modes, a
\* success without data or mode, a failure with and without a message, and
\* JSON null.
DirectBodies ==
    { Envelope(JBool(TRUE), ReviewData, JStr("review"), JUndef),
      Envelope(JBool(TRUE), JObj([fixedCode |-> JStr("f")]), JStr("fix"), JUndef),
      Envelope(JBool(TRUE), JUndef, JUndef, JUndef),
      Envelope(JBool(FALSE), JUndef, JUndef, JStr("boom")),
      Envelope(JBool(FALSE), JUndef, JUndef, JUndef),
      JNull }

\* handleAction(mode), whatever loading is.  An accepted call overlaps the
\* calls still suspended.
Run(mode) ==
    /\ HandleAction(mode)
    /\ overlapped' = IF CodeIsBlank(code) THEN overlapped ELSE pending # <<>>

DirectNext ==
    \/ code = <<>> /\ SetCode(<<"x">>) /\ UNCHANGED aside
    \/ (\E mode \in DirectModes : Len(pending) < MaxPending /\ Run(mode))
          /\ UNCHANGED call
    \/ FetchResolved /\ UNCHANGED aside
    \/ FetchRejected /\ UNCHANGED aside
    \/ JsonRejected /\ UNCHANGED aside
    \/ (\E i \in 1..Len(pending), data \in DirectBodies : JsonResolve(i, data))
          /\ UNCHANGED aside

DirectSpec == Init /\ [][DirectNext]_vars

(***************************************************************************)
(* handleClear called from any state, whether or not a Clear button is     *)
(* rendered, next to the handlers of the page.                             *)
(***************************************************************************)
\* The text and the outcome are the initial, empty ones.
IsCleared ==
    /\ code = <<>>
    /\ result = JNull
    /\ resultMode = JNull
    /\ error = JNull

\* handleClear(); the step is recorded as "clearAgain" when it is applied to
\* the outcome of a handleClear.
ClearCall ==
    /\ HandleClear
    /\ last' = Event(IF last.op \in {"clear", "clearAgain"} /\ IsCleared
                     THEN "clearAgain" ELSE "clear",
                     "none", FALSE, NoBody)

ClearNext ==
    \/ Next
    \/ ClearCall /\ UNCHANGED aside

ClearSpec == Init /\ [][ClearNext]_vars

(***************************************************************************)
(* Properties.                                                             *)
(***************************************************************************)
\* Populated: neither null nor undefined.
NonNull(x) == ~IsNullish(x)

\* The body carries an error message: a non-empty string in its error field.
HasErrorMessage(b) == Get(b, "error").t = "string" /\ Get(b, "error").v # ""

\* The fields the views of a mode need.
Required(mode) ==
    CASE mode = "review" -> {"summary", "rating"}
      [] mode = "fix" -> {"fixedCode"}
      [] mode = "optimize" -> {"optimizedCode"}
      [] mode = "explain" -> {"explanation"}

\* The body is {success: true, data, mode} with mode the requested one.
IsSuccessEnvelope(b, mode) ==
    /\ Get(b, "success") = JBool(TRUE)
    /\ Get(b, "mode") = JStr(mode)

\* The data of the body is an object without a field its mode requires.
LacksRequired(b, mode) ==
    /\ Get(b, "data").t = "object"
    /\ \E k \in Required(mode) : IsNullish(Get(Get(b, "data"), k))

\* C1: in every reachable state result and error are never both non-null.
C1_ResultErrorExclusive == ~(NonNull(result) /\ NonNull(error))

\* C2: in every reachable state loading is true if and only if loadingMode
\* is non-null.
C2_LoadingIffActiveMode == loading <=> NonNull(loadingMode)

C2_Witness == last.op \in Completed /\ ~loading /\ loadingMode = JNull

\* C3: a run invoked when the trimmed code is empty issues no request, sets
\* error to "Please enter some code" and leaves loading and loadingMode
\* unchanged, with loading false afterwards.
C3_BlankCodeIsRejected ==
    [][\A m \in Modes : (Click(m) /\ Trim(code) = <<>>) =>
          /\ pending' = pending
          /\ error' = JStr("Please enter some code")
          /\ loading' = loading
          /\ loadingMode' = loadingMode
          /\ loading' = FALSE]_vars

C3_Witness ==
    /\ last.op = "reject"
    /\ code # <<>>
    /\ error = JStr("Please enter some code")
    /\ pending = <<>>

\* C4: whenever result is non-null, resultMode is non-null and equals the
\* mode passed to the run whose response produced that result.
C4_ResultModeIsRequestMode ==
    /\ NonNull(result) => NonNull(resultMode)
    /\ (last.op = "handled" /\ NonNull(result)) => resultMode = JStr(last.mode)

\* C5: after an accepted run completes, whatever the response, exactly one
\* of result and error is non-null.
C5_ExactlyOneOutcome ==
    last.op \in Completed => (NonNull(result) <=> ~NonNull(error))

\* C6: every accepted run eventually returns the session to the idle state
\* loading = false, loadingMode = null, with the buttons enabled again,
\* provided the outbound call eventually resolves or fails.
C6_ReturnsToIdle ==
    loading ~> (~loading /\ loadingMode = JNull /\ pending = <<>>)

C6_Witness ==
    /\ last.op \in {"fetchFailed", "parseFailed"}
    /\ ~loading
    /\ loadingMode = JNull
    /\ pending = <<>>

\* C7: an accepted run, in one step, sets result, resultMode and error to
\* null, loading to true and loadingMode to the mode, and issues exactly one
\* request with body {code, language, mode}; no other step issues a request.
C7_AcceptIsAtomicAndSingle ==
    [][/\ \A m \in Modes : (Click(m) /\ Trim(code) # <<>>) =>
             /\ result' = JNull
             /\ resultMode' = JNull
             /\ error' = JNull
             /\ loading' = TRUE
             /\ loadingMode' = JStr(m)
             /\ Len(pending') = Len(pending) + 1
             /\ SubSeq(pending', 1, Len(pending)) = pending
             /\ pending'[Len(pending')].pc = "fetch"
             /\ pending'[Len(pending')].body =
                    [code |-> code, language |-> language, mode |-> m]
       /\ Len(pending') > Len(pending) =>
             \E m \in Modes : Click(m) /\ Trim(code) # <<>>
       /\ (FetchRejected \/ JsonRejected \/ JsonResolved) =>
             Len(pending') = Len(pending) - 1]_vars

C7_Witness ==
    /\ last.op = "accept"
    /\ loading
    /\ Len(pending) = 1
    /\ pending[1].body.code = <<" ", "x">>

\* C8: a non-2xx answer whose body carries no error message, an answer with
\* no JSON body included, ends with error = "Failed to process code" and
\* result = null.
C8_Non2xxWithoutMessageFallsBack ==
    (last.op \in {"handled", "parseFailed"} /\ ~last.ok /\ ~HasErrorMessage(last.body)) =>
        /\ error = JStr("Failed to process code")
        /\ result = JNull

\* C9: a 2xx success envelope whose data lacks a field the mode requires ends
\* as an error: error is non-null and result stays null.
C9_MissingFieldIsError ==
    (/\ last.op = "handled"
     /\ last.ok
     /\ IsSuccessEnvelope(last.body, last.mode)
     /\ LacksRequired(last.body, last.mode)) =>
        /\ NonNull(error)
        /\ result = JNull

\* C10: every non-2xx response is a failure whatever its body: result stays
\* null and error is non-null, and error is the body's error message when
\* the body carries one.
C10_Non2xxIsFailure ==
    (last.op \in {"handled", "parseFailed"} /\ ~last.ok) =>
        /\ result = JNull
        /\ resultMode = JNull
        /\ NonNull(error)
        /\ HasErrorMessage(last.body) => error = Get(last.body, "error")

C10_Witness ==
    /\ last.op = "handled"
    /\ ~last.ok
    /\ IsSuccessEnvelope(last.body, last.mode)
    /\ ~LacksRequired(last.body, last.mode)
    /\ Get(last.body, "data").t = "object"
    /\ HasErrorMessage(last.body)
    /\ error = JStr("boom")

\* C11: a 2xx envelope {success: true, mode, data} with the requested mode
\* and data well-formed for it ends with loading = false, loadingMode = null,
\* error = null, resultMode = mode and result = data.
C11_SuccessStoresData ==
    (/\ last.op = "handled"
     /\ last.ok
     /\ IsSuccessEnvelope(last.body, last.mode)
     /\ Get(last.body, "data").t = "object"
     /\ ~LacksRequired(last.body, last.mode)) =>
        /\ loading = FALSE
        /\ loadingMode = JNull
        /\ error = JNull
        /\ resultMode = JStr(last.mode)
        /\ result = Get(last.body, "data")

C11_Witness ==
    /\ last.op = "handled"
    /\ last.ok
    /\ last.mode = "review"
    /\ IsSuccessEnvelope(last.body, "review")
    /\ resultMode = JStr("review")
    /\ Get(result, "rating") = JNum(8)
    /\ error = JNull
    /\ ~loading

\* C16: with run triggered only through the buttons, at most one request is
\* in flight and loading is true exactly when a request is in flight.
C16_OneRequestInFlight ==
    /\ Len(pending) <= 1
    /\ loading <=> pending # <<>>

C16_Witness ==
    /\ loading
    /\ Len(pending) = 1
    /\ pending[1].pc = "json"
    /\ pending[1].body.code # code
    /\ pending[1].body.language # language

\* C17: a 2xx envelope whose success is false leaves result null and sets
\* error to the envelope's error message when it is present and non-empty,
\* otherwise to "Processing failed".
C17_ServiceFailureMessage ==
    (/\ last.op = "handled"
     /\ last.ok
     /\ Get(last.body, "success") = JBool(FALSE)) =>
        /\ result = JNull
        /\ resultMode = JNull
        /\ error = IF HasErrorMessage(last.body)
                   THEN Get(last.body, "error")
                   ELSE JStr("Processing failed")

C17_Witness ==
    /\ last.op = "handled"
    /\ last.ok
    /\ Get(last.body, "success") = JBool(FALSE)
    /\ Get(last.body, "error") = JStr("")
    /\ error = JStr("Processing failed")

\* C18: under the button guard, loading implies result, resultMode and error
\* are null, and the Clear button is not rendered.
C18_NothingShownWhileLoading ==
    loading =>
        /\ result = JNull
        /\ resultMode = JNull
        /\ error = JNull
        /\ ~ClearVisible

C18_Witness ==
    /\ loading
    /\ last.op = "fetched"
    /\ CodeIsBlank(code)
    /\ result = JNull
    /\ error = JNull

\* C12: from any state, clear sets code, result, resultMode and error to
\* their initial empty values and leaves language unchanged; applied to the
\* outcome of a clear it changes nothing, so twice is the same as once.
C12_ClearResetsAndIsIdempotent ==
    [][ClearCall =>
          /\ code' = <<>>
          /\ result' = JNull
          /\ resultMode' = JNull
          /\ error' = JNull
          /\ language' = language
          /\ last'.op = "clearAgain" =>
                UNCHANGED <<code, language, loading, loadingMode, result,
                            resultMode, error, pending>>]_vars

C12_Witness ==
    /\ last.op = "clearAgain"
    /\ language = "python"
    /\ loading
    /\ IsCleared

\* The completion recorded in ev stored a result: a 2xx body with a truthy
\* success field.
Succeeded(ev) ==
    /\ ev.op = "handled"
    /\ ev.ok
    /\ NonNull(ev.body)
    /\ Truthy(Get(ev.body, "success"))

ComplexityClasses == <<{O1}, {OLOGN}, {ON}, {ONLOGN}, {ONSQ, ONP2}, {O2N}>>

\* The place of a notation in the ordering; 0 when it is none of them.
Rank(x) ==
    IF x.t = "text" /\ \E i \in DOMAIN ComplexityClasses :
                          ToLowerCase(x.v) \in ComplexityClasses[i]
    THEN CHOOSE i \in DOMAIN ComplexityClasses : ToLowerCase(x.v) \in ComplexityClasses[i]
    ELSE 0

Digits == <<"0", "1", "2", "3", "4", "5", "6", "7", "8", "9">>

DigitValue(ch) == (CHOOSE i \in DOMAIN Digits : Digits[i] = ch) - 1

RECURSIVE Decimal(_)
Decimal(cs) ==
    IF cs = <<>> THEN 0
    ELSE 10 * Decimal(SubSeq(cs, 1, Len(cs) - 1)) + DigitValue(cs[Len(cs)])

\* The number a CSS percentage such as '30%' stands for.
Percent(w) == Decimal(SubSeq(w.v, 1, Len(w.v) - 1))

\* C13: over the ordered classes O(1) < O(log n) < O(n) < O(n log n) < O(n^2)
\* < O(2^n), in any letter case, the width of a class is at least that of
\* every lower class, and O(n log n) is wider than O(n) and O(log n).
C13_WidthIsMonotone ==
    (/\ call.fn = "complexity"
     /\ Rank(call.arg.time) > 0
     /\ Rank(call.arg.space) > 0) =>
        /\ call.ret.timeWidth.t = "text"
        /\ call.ret.spaceWidth.t = "text"
        /\ Rank(call.arg.time) <= Rank(call.arg.space) =>
              Percent(call.ret.timeWidth) <= Percent(call.ret.spaceWidth)
        /\ (Rank(call.arg.time) \in {2, 3} /\ Rank(call.arg.space) = 4) =>
              Percent(call.ret.timeWidth) < Percent(call.ret.spaceWidth)

C13_Witness ==
    /\ call.fn = "complexity"
    /\ call.arg.time = JText(<<"O", "(", "N", ")">>)
    /\ call.arg.space = JText(<<"O", "(", "N", " ", "L", "O", "G", " ", "N", ")">>)
    /\ Percent(call.ret.timeWidth) = 30
    /\ Percent(call.ret.spaceWidth) = 50

\* The colors of the three tables.
ComplexityColors ==
    {JStr("#4caf50"), JStr("#8bc34a"), JStr("#ffc107"), JStr("#ff9800"),
     JStr("#f44336"), JStr("#666")}

SeverityColors ==
    {JStr("#f44336"), JStr("#ff5722"), JStr("#ff9800"), JStr("#4caf50"), JStr("#666")}

TypeColors ==
    {JStr("#f44336"), JStr("#e91e63"), JStr("#ff9800"), JStr("#2196f3"), JStr("#666")}

\* The value is absent, or a string that is none of the words in any case.
Unrecognised(x, words) == x.t # "text" \/ ToLowerCase(x.v) \notin words

\* The value is absent, or a string that holds none of the notations.
UnknownComplexity(x) ==
    x.t # "text" \/ \A w \in {O1, OLOGN, ON, ONLOGN, ONSQ, ONP2, O2N, ONF} :
                       ~Includes(ToLowerCase(x.v), w)

\* C14: the three color lookups return a color of their table for every
\* string in any letter case, for the empty string and for null, never
\* throwing, and #666 for an absent or unrecognised value.
C14_ColorsAreTotal ==
    /\ call.fn = "complexity" =>
          /\ call.ret.timeColor \in ComplexityColors
          /\ call.ret.spaceColor \in ComplexityColors
          /\ UnknownComplexity(call.arg.time) => call.ret.timeColor = JStr("#666")
          /\ UnknownComplexity(call.arg.space) => call.ret.spaceColor = JStr("#666")
    /\ call.fn = "issue" =>
          /\ call.ret.severityColor \in SeverityColors
          /\ call.ret.typeColor \in TypeColors
          /\ Unrecognised(call.arg.severity, {Critical, High, Medium, Low}) =>
                call.ret.severityColor = JStr("#666")
          /\ Unrecognised(call.arg.type, {Bug, Security, Performance, BestPractice}) =>
                call.ret.typeColor = JStr("#666")

C14_Witness ==
    /\ call.fn = "issue"
    /\ call.arg.severity = JNull
    /\ call.arg.type = JText(<<"B", "U", "G">>)
    /\ call.ret.severityColor = JStr("#666")
    /\ call.ret.typeColor = JStr("#f44336")

\* The positions of a text that lie in a run of two or more newlines.
InBoundary(s, p) ==
    /\ s[p] = Newline
    /\ \/ p > 1 /\ s[p - 1] = Newline
       \/ p < Len(s) /\ s[p + 1] = Newline

\* The blocks of a text, as pairs of first and last position: the maximal
\* stretches that hold no boundary position.
BlockSpans(s) ==
    {sp \in (1..Len(s)) \X (1..Len(s)) :
        /\ sp[1] <= sp[2]
        /\ \A p \in sp[1]..sp[2] : ~InBoundary(s, p)
        /\ sp[1] = 1 \/ InBoundary(s, sp[1] - 1)
        /\ sp[2] = Len(s) \/ InBoundary(s, sp[2] + 1)}

\* The blocks that hold something other than whitespace.
KeptSpans(s) ==
    {sp \in BlockSpans(s) : \E p \in sp[1]..sp[2] : s[p] \notin {" ", Newline}}

\* The letters of a sequence of characters, in their order.
Letters(s) == SelectSeq(s, LAMBDA ch : ch \in {"a", "b"})

\* The n-th paragraph fragment of an output: what lies between the n-th <p>
\* and the n-th </p>.
Opens(out) == {i \in DOMAIN out : out[i] = ParaOpen}

Closes(out) == {i \in DOMAIN out : out[i] = ParaClose}

Nth(S, n) == CHOOSE i \in S : Cardinality({j \in S : j <= i}) = n

Fragment(out, n) == SubSeq(out, Nth(Opens(out), n) + 1, Nth(Closes(out), n) - 1)

\* An output is a row of fragments <p>...</p> with nothing between them.
IsRowOfFragments(out) ==
    /\ Cardinality(Opens(out)) = Cardinality(Closes(out))
    /\ \A n \in 1..Cardinality(Opens(out)) :
          /\ Nth(Opens(out), n) < Nth(Closes(out), n)
          /\ Nth(Opens(out), n) = IF n = 1 THEN 1 ELSE Nth(Closes(out), n - 1) + 1
    /\ out # <<>> => out[Len(out)] = ParaClose

\* C19: formatExplanation returns one paragraph fragment, in the order of the
\* input, for each block between blank-line boundaries that is not empty
\* after trimming, none for the others, and the empty string for the empty
\* string and for null.
C19_OneFragmentPerBlock ==
    call.fn = "explanation" =>
        /\ call.ret.t = "text"
        /\ ~Truthy(call.arg) => call.ret.v = <<>>
        /\ call.arg.t = "text" =>
              LET s == call.arg.v
                  out == call.ret.v
                  spans == KeptSpans(s)
              IN /\ IsRowOfFragments(out)
                 /\ Cardinality(Opens(out)) = Cardinality(spans)
                 /\ \A sp \in spans :
                       LET n == Cardinality({o \in spans : o[1] <= sp[1]})
                       IN /\ Fragment(out, n) # <<>>
                          /\ Letters(Fragment(out, n)) = Letters(SubSeq(s, sp[1], sp[2]))

C19_Witness ==
    /\ call.fn = "explanation"
    /\ call.arg = JText(<<"a", Newline, Newline, "b">>)
    /\ call.ret = JText(<<ParaOpen, "a", ParaClose, ParaOpen, "b", ParaClose>>)

====
